---- MODULE Spec2Model ----
(***************************************************************************)
(* Model of the sliding-piece puzzle search engine of src/ai/ai.c and      *)
(* src/ai/queue.c: the FIFO queue, the move applier applyAction, the state *)
(* encoder packMap, the terminal test winning_state and the three search   *)
(* procedures algo1 (plain BFS), algo2 (BFS + exact duplicate pruning) and *)
(* algo3 (iterated width with novelty pruning).                            *)
(*                                                                         *)
(* A behaviour is one call of one of the three procedures on a loaded map, *)
(* as find_solution makes it (ai.c 737-742); the procedure frees the       *)
(* loaded map when it ends.  malloc, calloc and realloc are taken to       *)
(* succeed.                                                                *)
(*                                                                         *)
(* gate.c (move_location, the loader), radix.c and utils.c are not part of *)
(* the sources at hand; their operators below follow the written           *)
(* specification and say so.                                               *)
(***************************************************************************)
EXTENDS Integers, Sequences, FiniteSets, TLC

(* ------------------------------ bounds -------------------------------- *)
\* Largest grid loaded: GridH rows of GridW cells.
GridH == 2
GridW == 2
\* Largest number of pieces on a loaded map.
MaxPieces == 2
\* algo1 prunes nothing: its queue and its solution strings grow without
\* end on a map where a piece can move to and fro.  The state space holds
\* the runs of algo1 up to a queue of MaxQueue nodes and the expansion of
\* the states of fewer than MaxMoves moves; on the maps of two rows or more
\* every run of algo1 that ends, ends within them.
MaxQueue == 40
MaxMoves == 4
\* Largest grid (rows, columns, cells) and number of pieces of the states
\* handed to packMap alone.
PackH == 3
PackW == 3
PackPieces == 3
PackCells == 6

(* ----------------------- ai.c lines 18-24 ----------------------------- *)
directions == <<"u", "d", "l", "r">>
pieceNames == <<"0", "1", "2", "3", "4", "5", "6", "7", "8", "9">>

\* move_piece - '0' (queue.c lines 60, 61, 87)
PieceId(ch) == CHOOSE i \in 0..9 : pieceNames[i + 1] = ch

(* -------------------- cell alphabet (gate.c, from the spec) ------------ *)
\* Glyph of piece p standing on a goal cell: 'H' for piece 0 (a satisfied
\* goal), 'I'..'Q' for pieces 1..9 (goal covered by another piece).
OnGoalNames == <<"H", "I", "J", "K", "L", "M", "N", "O", "P", "Q">>
UnsatisfiedGoals == {"G", "I", "J", "K", "L", "M", "N", "O", "P", "Q"}
PieceGlyph(p, under) == IF under = "G" THEN OnGoalNames[p + 1] ELSE pieceNames[p + 1]

\* The map rows of a gate: width = num_chars_map / lines (ai.c 302, 378).
Rows(gate) == 0..(gate.lines - 1)
Cols(gate) == 0..((gate.num_chars_map \div gate.lines) - 1)

(* ------------------------- queue.c lines 6-45 -------------------------- *)
make_empty_queue == << >>

\* Mutant: the node linked twice.
enqueue_twice(queue, data) == queue \o <<data, data>>
enqueue(queue, data) == Append(queue, data)

dequeue_data(queue) == Head(queue)
dequeue_rest(queue) == Tail(queue)

is_empty_queue(queue) == queue = << >>

(* ------------------------- ai.c lines 41-92 ---------------------------- *)
\* The state the duplicate holds: the scalars, the cells of map and map_save
\* and the piece arrays of the source, and its solution string.
duplicate_state(gate) ==
    [lines         |-> gate.lines,
     player_x      |-> gate.player_x,
     player_y      |-> gate.player_y,
     num_pieces    |-> gate.num_pieces,
     num_chars_map |-> gate.num_chars_map,
     map           |-> [i \in Rows(gate) |-> gate.map[i]],
     map_save      |-> [i \in Rows(gate) |-> gate.map_save[i]],
     piece_x       |-> [p \in 0..(gate.num_pieces - 1) |-> gate.piece_x[p]],
     piece_y       |-> [p \in 0..(gate.num_pieces - 1) |-> gate.piece_y[p]],
     soln          |-> IF Len(gate.soln) = 0 THEN << >> ELSE gate.soln]

(* ------------- gate.c move_location (from the spec, 4.5) --------------- *)
DeltaX(d) == IF d = "l" THEN -1 ELSE IF d = "r" THEN 1 ELSE 0
DeltaY(d) == IF d = "u" THEN -1 ELSE IF d = "d" THEN 1 ELSE 0

\* One cell of movement of the piece in the direction; a wall, the grid
\* boundary or another piece blocks the motion and leaves the gate as it is.
move_location(gate, move_piece, move_direction) ==
    LET p  == PieceId(move_piece)
        x  == gate.piece_x[p]
        y  == gate.piece_y[p]
        nx == x + DeltaX(move_direction)
        ny == y + DeltaY(move_direction)
        free == /\ ny \in Rows(gate)
                /\ nx \in Cols(gate)
                /\ gate.map[ny][nx] \in {" ", "G"}
    IN  IF ~free THEN gate
        ELSE [gate EXCEPT
                !.map = [i \in Rows(gate) |-> [j \in Cols(gate) |->
                            IF i = y /\ j = x THEN gate.map_save[y][x]
                            ELSE IF i = ny /\ j = nx
                                 THEN PieceGlyph(p, gate.map_save[ny][nx])
                                 ELSE gate.map[i][j]]],
                !.piece_x = [gate.piece_x EXCEPT ![p] = nx],
                !.piece_y = [gate.piece_y EXCEPT ![p] = ny]]

(* ------------------------ queue.c lines 59-92 -------------------------- *)
\* Mutant: the comparison of the coordinates always reports a move.
applyAction_always(current_state, move_piece, move_direction) ==
    LET dup    == duplicate_state(current_state)
        temp   == move_location(dup, move_piece, move_direction)
    IN  [new_state |-> [dup EXCEPT !.map = temp.map,
                              !.piece_x = temp.piece_x,
                              !.piece_y = temp.piece_y,
                              !.soln = current_state.soln \o <<move_piece, move_direction>>],
         moved     |-> 1]

\* Mutant: the two characters are appended to an accepted child only.
applyAction_appendIfMoved(current_state, move_piece, move_direction) ==
    LET dup    == duplicate_state(current_state)
        temp   == move_location(dup, move_piece, move_direction)
        moved  == IF \/ temp.piece_x[PieceId(move_piece)]
                          # current_state.piece_x[PieceId(move_piece)]
                     \/ temp.piece_y[PieceId(move_piece)]
                          # current_state.piece_y[PieceId(move_piece)]
                  THEN 1 ELSE 0
    IN  [new_state |-> [dup EXCEPT !.map = temp.map,
                              !.piece_x = temp.piece_x,
                              !.piece_y = temp.piece_y,
                              !.soln = IF moved = 1
                                       THEN current_state.soln
                                                \o <<move_piece, move_direction>>
                                       ELSE current_state.soln],
         moved     |-> moved]

\* Mutant: only the x coordinates are compared.
applyAction_xOnly(current_state, move_piece, move_direction) ==
    LET dup    == duplicate_state(current_state)
        temp   == move_location(dup, move_piece, move_direction)
    IN  [new_state |-> [dup EXCEPT !.map = temp.map,
                              !.piece_x = temp.piece_x,
                              !.piece_y = temp.piece_y,
                              !.soln = current_state.soln \o <<move_piece, move_direction>>],
         moved     |-> IF temp.piece_x[PieceId(move_piece)]
                            # current_state.piece_x[PieceId(move_piece)]
                       THEN 1 ELSE 0]

\* The child handed back through *new_state and the returned flag.  dup is
\* the duplicate made at line 64, temp the struct move_location returns.
applyAction(current_state, move_piece, move_direction) ==
    LET prev_x == current_state.piece_x[PieceId(move_piece)]
        prev_y == current_state.piece_y[PieceId(move_piece)]
        Result(dup, temp) ==
            LET child == [dup EXCEPT
                            !.map = temp.map,
                            !.player_x = temp.player_x,
                            !.player_y = temp.player_y,
                            !.piece_x = temp.piece_x,
                            !.piece_y = temp.piece_y,
                            !.soln = current_state.soln \o <<move_piece, move_direction>>]
            IN  [new_state |-> child,
                 moved     |-> IF \/ temp.piece_x[PieceId(move_piece)] # prev_x
                                  \/ temp.piece_y[PieceId(move_piece)] # prev_y
                               THEN 1 ELSE 0]
    IN  CHOOSE res \in
            UNION { { Result(dup, temp) :
                        temp \in {move_location(dup, move_piece, move_direction)} } :
                    dup \in {duplicate_state(current_state)} } : TRUE

(* ------- duplicate_state and applyAction on the storage they use -------- *)
\* A store is the sequence of the blocks malloc has handed out, a block's
\* address its index.  A block is a gate_t struct, a row of cells or a
\* solution string; a struct holds, for every row of map and of map_save
\* and for soln, the address of the block, and piece_x, piece_y and the
\* scalars in itself.

\* The state the struct at address gp stands for: its rows and its string
\* read through its pointers.
deref_gate(store, gp) ==
    [lines         |-> store[gp].lines,
     player_x      |-> store[gp].player_x,
     player_y      |-> store[gp].player_y,
     num_pieces    |-> store[gp].num_pieces,
     num_chars_map |-> store[gp].num_chars_map,
     map           |-> [i \in 0..(store[gp].lines - 1) |-> store[store[gp].map[i]]],
     map_save      |-> [i \in 0..(store[gp].lines - 1) |-> store[store[gp].map_save[i]]],
     piece_x       |-> store[gp].piece_x,
     piece_y       |-> store[gp].piece_y,
     soln          |-> store[store[gp].soln]]

\* A store that holds the state gate in blocks of its own: the rows of map
\* at 1..lines, those of map_save behind them, then the string and the
\* struct, whose address is handed back with the store.
gate_in_store(gate) ==
    LET n == gate.lines
    IN  [store |-> [a \in 1..(2 * n + 2) |->
                      IF a <= n THEN gate.map[a - 1]
                      ELSE IF a <= 2 * n THEN gate.map_save[a - n - 1]
                      ELSE IF a = 2 * n + 1 THEN gate.soln
                      ELSE [lines         |-> gate.lines,
                            player_x      |-> gate.player_x,
                            player_y      |-> gate.player_y,
                            num_pieces    |-> gate.num_pieces,
                            num_chars_map |-> gate.num_chars_map,
                            map           |-> [i \in 0..(n - 1) |-> i + 1],
                            map_save      |-> [i \in 0..(n - 1) |-> n + i + 1],
                            piece_x       |-> gate.piece_x,
                            piece_y       |-> gate.piece_y,
                            soln          |-> 2 * n + 1]],
         gate  |-> 2 * n + 2]

\* Mutant: the duplicate's map points to the rows of the source; only the
\* struct, the rows of map_save and the string are allocated.
duplicate_state_in_sharedRows(store, gp) ==
    LET n    == store[gp].lines
        base == Len(store)
    IN  [store |-> store \o [a \in 1..(2 * n + 2) |->
                      IF a = 1
                      THEN [store[gp] EXCEPT
                              !.map_save = [i \in 0..(n - 1) |-> base + 2 * i + 3],
                              !.soln     = base + 2 * n + 2]
                      ELSE IF a = 2 * n + 2 THEN store[store[gp].soln]
                      ELSE IF a % 2 = 0 THEN store[store[gp].map[(a - 2) \div 2]]
                      ELSE store[store[gp].map_save[(a - 3) \div 2]]],
         duplicate |-> base + 1]

\* ai.c 41-92 on a store: the struct is allocated (42) and its scalars and
\* piece arrays filled in (48-52, 74-75); for every row a block is
\* allocated for map and one for map_save and the cells of the source's
\* rows copied into them (63-69); a block is allocated for the string and
\* the source's string copied (78-89).  The source's blocks are read only.
duplicate_state_in(store, gp) ==
    LET n    == store[gp].lines
        base == Len(store)
    IN  [store |-> store \o [a \in 1..(2 * n + 2) |->
                      IF a = 1
                      THEN [store[gp] EXCEPT
                              !.map      = [i \in 0..(n - 1) |-> base + 2 * i + 2],
                              !.map_save = [i \in 0..(n - 1) |-> base + 2 * i + 3],
                              !.soln     = base + 2 * n + 2]
                      ELSE IF a = 2 * n + 2 THEN store[store[gp].soln]
                      ELSE IF a % 2 = 0 THEN store[store[gp].map[(a - 2) \div 2]]
                      ELSE store[store[gp].map_save[(a - 3) \div 2]]],
         duplicate |-> base + 1]

\* gate.c move_location on a store (from the spec, 4.5, and queue.c 65-68):
\* the struct is passed and returned by value, so the cells the move changes
\* are written in the rows the struct's map points to, and the new
\* coordinates are in the struct returned.
move_location_in(store, gate, move_piece, move_direction) ==
    LET view == [lines         |-> gate.lines,
                 player_x      |-> gate.player_x,
                 player_y      |-> gate.player_y,
                 num_pieces    |-> gate.num_pieces,
                 num_chars_map |-> gate.num_chars_map,
                 map           |-> [i \in 0..(gate.lines - 1) |-> store[gate.map[i]]],
                 map_save      |-> [i \in 0..(gate.lines - 1) |-> store[gate.map_save[i]]],
                 piece_x       |-> gate.piece_x,
                 piece_y       |-> gate.piece_y,
                 soln          |-> store[gate.soln]]
        after == move_location(view, move_piece, move_direction)
    IN  [store |-> [a \in 1..Len(store) |->
                      IF \E i \in 0..(gate.lines - 1) : gate.map[i] = a
                      THEN after.map[CHOOSE i \in 0..(gate.lines - 1) : gate.map[i] = a]
                      ELSE store[a]],
         temp  |-> [gate EXCEPT !.player_x = after.player_x,
                                !.player_y = after.player_y,
                                !.piece_x  = after.piece_x,
                                !.piece_y  = after.piece_y]]

\* queue.c 59-92 on a store: the duplicate is made (64), move_location is
\* given the duplicate's struct (66), its coordinates are copied into the
\* duplicate (68-72), and the duplicate's string is cut at the length of the
\* parent's and the two characters are written behind it (74-84).
applyAction_in(store, current_state, move_piece, move_direction) ==
    LET prev_x == store[current_state].piece_x[PieceId(move_piece)]
        prev_y == store[current_state].piece_y[PieceId(move_piece)]
        dup    == duplicate_state_in(store, current_state)
        new_state == dup.duplicate
        mv     == move_location_in(dup.store, dup.store[new_state],
                                   move_piece, move_direction)
        own    == [mv.store EXCEPT ![new_state] =
                      [@ EXCEPT !.player_x = mv.temp.player_x,
                                !.player_y = mv.temp.player_y,
                                !.piece_x  = mv.temp.piece_x,
                                !.piece_y  = mv.temp.piece_y]]
        old_len == Len(own[own[current_state].soln])
        str    == own[new_state].soln
    IN  [store     |-> [own EXCEPT ![str] =
                          SubSeq(@, 1, old_len) \o <<move_piece, move_direction>>],
         new_state |-> new_state,
         moved     |-> IF \/ own[new_state].piece_x[PieceId(move_piece)] # prev_x
                          \/ own[new_state].piece_y[PieceId(move_piece)] # prev_y
                       THEN 1 ELSE 0]

(* ------------------------ ai.c lines 795-804 --------------------------- *)
\* Every state the search tests is made by duplicate_state, which gives a
\* row num_chars_map bytes and copies that many from the parent's row
\* (ai.c 63-69): the width cells and, when there are two rows or more, the
\* '\0' behind them.  The row of a one-row state has no '\0'.
RowTerminated(gate) == gate.num_chars_map > gate.num_chars_map \div gate.lines

\* The results a call of winning_state can give (ai.c 795-804).  For every
\* row the scan runs j from 0 until map_save[i][j] is '\0' and returns
\* false at the first map[i][j] that is 'G' or in 'I'..'Q'.  With no such
\* cell it returns true when the row ends in '\0'; in a row without '\0' it
\* reads on behind the row's bytes and returns what it finds there: true
\* or false.
winning_state(gate) ==
    IF \E i \in Rows(gate) : \E j \in Cols(gate) :
          gate.map[i][j] = "G" \/ gate.map[i][j] \in (UnsatisfiedGoals \ {"G"})
    THEN {FALSE}
    ELSE IF RowTerminated(gate) THEN {TRUE} ELSE {TRUE, FALSE}

(* --------------- utils.c bit primitives (from the spec, 4.1) ----------- *)
\* Smallest k >= 1 with 2^k > n - 1.
calcBits(n) == CHOOSE k \in 1..16 : 2^k >= n /\ (k = 1 \/ 2^(k - 1) < n)

\* A byte buffer is a sequence of bytes; bit i lives in byte i / 8 at
\* position i % 8, least significant bit first.
getBit(buf, i) == (buf[(i \div 8) + 1] \div 2^(i % 8)) % 2

(* ------------------------ ai.c lines 747-754 --------------------------- *)
getPackedSize(gate) ==
    LET pBits == calcBits(gate.num_pieces)
        hBits == calcBits(gate.lines)
        wBits == calcBits(gate.num_chars_map \div gate.lines)
        atomSize == pBits + hBits + wBits
        bitCount == atomSize * gate.num_pieces
    IN  bitCount

\* calloc(packedBytes, 1): packedBytes zero bytes (ai.c 199, 355, 546).
calloc(n) == [k \in 1..n |-> 0]

(* ------------------------ ai.c lines 759-790 --------------------------- *)
\* Mutant: the piece_x field is written from piece_y.
packBit_noX(gate, bitIdx) ==
    LET pBits == calcBits(gate.num_pieces)
        hBits == calcBits(gate.lines)
        i     == bitIdx \div (pBits + hBits + calcBits(gate.num_chars_map \div gate.lines))
        off   == bitIdx % (pBits + hBits + calcBits(gate.num_chars_map \div gate.lines))
    IN  IF off < pBits THEN (i \div 2^off) % 2
        ELSE IF off < pBits + hBits THEN (gate.piece_y[i] \div 2^(off - pBits)) % 2
        ELSE (gate.piece_y[i] \div 2^(off - pBits - hBits)) % 2

\* The value written at bitIdx: piece i = bitIdx / atom, then the field the
\* offset falls in (the id, piece_y, piece_x), shifted right by j.
packBit(gate, bitIdx) ==
    LET pBits == calcBits(gate.num_pieces)
        hBits == calcBits(gate.lines)
        wBits == calcBits(gate.num_chars_map \div gate.lines)
        i     == bitIdx \div (pBits + hBits + wBits)
        off   == bitIdx % (pBits + hBits + wBits)
    IN  IF off < pBits THEN (i \div 2^off) % 2
        ELSE IF off < pBits + hBits THEN (gate.piece_y[i] \div 2^(off - pBits)) % 2
        ELSE (gate.piece_x[i] \div 2^(off - pBits - hBits)) % 2

\* Mutant: bitOn is called for the 1 bits, bitOff never.
packedBit_onlyOn(gate, packedMap, bitIdx) ==
    IF bitIdx < getPackedSize(gate) /\ packBit(gate, bitIdx) = 1 THEN 1
    ELSE getBit(packedMap, bitIdx)

\* Bit bitIdx of the buffer after the three loops: bitOn or bitOff has set it
\* to packBit for every bitIdx below the bit count; the others are not written.
packedBit(gate, packedMap, bitIdx) ==
    IF bitIdx < getPackedSize(gate) THEN packBit(gate, bitIdx)
    ELSE getBit(packedMap, bitIdx)

packMap(gate, packedMap) ==
    [k \in 1..Len(packedMap) |->
        IF 8 * (k - 1) >= getPackedSize(gate) THEN packedMap[k]
        ELSE
          packedBit(gate, packedMap, 8 * (k - 1))
        + 2 * packedBit(gate, packedMap, 8 * (k - 1) + 1)
        + 4 * packedBit(gate, packedMap, 8 * (k - 1) + 2)
        + 8 * packedBit(gate, packedMap, 8 * (k - 1) + 3)
        + 16 * packedBit(gate, packedMap, 8 * (k - 1) + 4)
        + 32 * packedBit(gate, packedMap, 8 * (k - 1) + 5)
        + 64 * packedBit(gate, packedMap, 8 * (k - 1) + 6)
        + 128 * packedBit(gate, packedMap, 8 * (k - 1) + 7)]

(* ----------------- radix.c (from the spec, 4.3) ------------------------ *)
PRESENT == "PRESENT"
NOTPRESENT == "NOTPRESENT"

\* The bits [from, from + len) of a packed key, in order.
KeyBits(key, from, len) == [k \in 1..len |-> getBit(key, from + k - 1)]

getNewRadixTree(numPieces, height, width) ==
    [n    |-> numPieces,
     atom |-> calcBits(numPieces) + calcBits(height) + calcBits(width),
     keys |-> {}]

\* Exact-key mode: the whole key of atom * num_pieces bits.
insertRadixTree(tree, key, numPieces) ==
    [tree EXCEPT !.keys = @ \cup {KeyBits(key, 0, tree.atom * numPieces)}]
checkPresent(tree, key, numPieces) ==
    IF KeyBits(key, 0, tree.atom * numPieces) \in tree.keys THEN PRESENT ELSE NOTPRESENT

\* k-subset mode: the s-combinations i1 < ... < is of the piece indices and,
\* for each, the concatenation of the atoms of the packed key.
Combinations(n, s) == {S \in SUBSET (0..(n - 1)) : Cardinality(S) = s}

RECURSIVE SubKey(_, _, _)
SubKey(tree, key, S) ==
    IF S = {} THEN << >>
    ELSE LET i == CHOOSE m \in S : \A o \in S : m <= o
         IN  KeyBits(key, i * tree.atom, tree.atom) \o SubKey(tree, key, S \ {i})

insertRadixTreenCr(tree, key, s) ==
    [tree EXCEPT !.keys = @ \cup {SubKey(tree, key, S) : S \in Combinations(tree.n, s)}]
checkPresentnCr(tree, key, s) ==
    IF \A S \in Combinations(tree.n, s) : SubKey(tree, key, S) \in tree.keys
    THEN PRESENT ELSE NOTPRESENT

(* ------------------ ai.c lines 641-649: the novelty loop --------------- *)
\* Mutants: the insertion made before the check; the loop left at the first
\* novel size; every child taken as novel.
RECURSIVE noveltyLoop_insertFirst(_, _, _, _, _)
noveltyLoop_insertFirst(radixTrees, packedMap, s, w, novel) ==
    IF s > w THEN [novel |-> novel, radixTrees |-> radixTrees]
    ELSE LET ins == insertRadixTreenCr(radixTrees[s], packedMap, s)
         IN  noveltyLoop_insertFirst([radixTrees EXCEPT ![s] = ins], packedMap, s + 1, w,
                 novel \/ checkPresentnCr(ins, packedMap, s) = NOTPRESENT)

RECURSIVE noveltyLoop_break(_, _, _, _, _)
noveltyLoop_break(radixTrees, packedMap, s, w, novel) ==
    IF s > w \/ novel THEN [novel |-> novel, radixTrees |-> radixTrees]
    ELSE noveltyLoop_break(
            [radixTrees EXCEPT ![s] = insertRadixTreenCr(radixTrees[s], packedMap, s)],
            packedMap, s + 1, w,
            novel \/ checkPresentnCr(radixTrees[s], packedMap, s) = NOTPRESENT)

RECURSIVE noveltyLoop_allNovel(_, _, _, _, _)
noveltyLoop_allNovel(radixTrees, packedMap, s, w, novel) ==
    IF s > w THEN [novel |-> TRUE, radixTrees |-> radixTrees]
    ELSE noveltyLoop_allNovel(
            [radixTrees EXCEPT ![s] = insertRadixTreenCr(radixTrees[s], packedMap, s)],
            packedMap, s + 1, w, novel)

(* ------------ ai.c lines 437-445: algo2's membership test -------------- *)
\* Mutant: a new key is not inserted.
algo2_prune_noInsert(radixTree, packedMap, numPieces) ==
    [present   |-> checkPresent(radixTree, packedMap, numPieces) = PRESENT,
     radixTree |-> radixTree]

\* PRESENT: the child is a duplicate; otherwise its key is inserted.
algo2_prune(radixTree, packedMap, numPieces) ==
    IF checkPresent(radixTree, packedMap, numPieces) = PRESENT
    THEN [present |-> TRUE, radixTree |-> radixTree]
    ELSE [present |-> FALSE,
          radixTree |-> insertRadixTree(radixTree, packedMap, numPieces)]

\* for (s = 1; s <= w; s++): check T[s], then insert into T[s] regardless.
RECURSIVE noveltyLoop(_, _, _, _, _)
noveltyLoop(radixTrees, packedMap, s, w, novel) ==
    IF s > w THEN [novel |-> novel, radixTrees |-> radixTrees]
    ELSE noveltyLoop(
            [radixTrees EXCEPT ![s] = insertRadixTreenCr(radixTrees[s], packedMap, s)],
            packedMap, s + 1, w,
            novel \/ checkPresentnCr(radixTrees[s], packedMap, s) = NOTPRESENT)

(* ============================ the state ================================ *)
(* -------------- ai.c lines 41-137: the states on the heap --------------- *)
\* The gate_t structs made by duplicate_state are numbered in the order they
\* are made.  heap records which of them are not freed yet (live), which
\* the queue nodes, current_state and solution_state point to, how many
\* were freed, and the first misuse of a pointer.
NoHeap ==
    [next |-> 0, live |-> {}, freed |-> 0, queue |-> << >>,
     current |-> 0, solution |-> 0, fault |-> "none", init_data |-> "loaded"]

\* duplicate_state's malloc (ai.c 42): the struct numbered h.next + 1.
malloc_state(h) == [h EXCEPT !.next = @ + 1, !.live = @ \cup {h.next + 1}]

\* A read through the pointer numbered id.
deref(h, id) ==
    IF id \in h.live \/ h.fault # "none" THEN h
    ELSE [h EXCEPT !.fault = "use after free"]

\* A free_state that releases nothing.
free_state_keep(h, id) == h

\* free_state (ai.c 98-137): nothing for a null pointer, else the struct and
\* all it owns are released.
free_state(h, id) ==
    IF id = 0 THEN h
    ELSE IF id \in h.live
    THEN [h EXCEPT !.live = @ \ {id}, !.freed = @ + 1]
    ELSE IF h.fault # "none" THEN h
    ELSE [h EXCEPT !.fault = "double free"]

\* free_queue (queue.c 47-57) releases the nodes, never the states they hold.
free_queue(h) == [h EXCEPT !.queue = << >>]

VARIABLES
    init_data,        \* the gate loaded by solve (ai.c 811-828)
    alg,              \* the algorithm find_solution runs (0: none yet)
    pc,               \* position of the run inside algoN
    packedMap,        \* the reused key buffer
    queue,            \* the open list
    current_state,    \* the state dequeued and being expanded
    piece, direction, \* the two for-loop counters of the expansion
    dequeued, enqueued, duplicatedNodes,
    has_won, soln, solution_state,
    w,                \* algo3's width loop variable; n + 1 in algo1, algo2
    radixTree,        \* algo2's exact-key set
    radixTrees,       \* algo3's trees T[1..w]
    report,           \* the statistics printed by the runs made on this map
    heap,             \* the gate_t structs made by duplicate_state in this run
    enq_log,          \* history: keys of the states enqueued since the queue was made
    shortest          \* history: least number of moves to a winning state, -1 if none

runvars == <<packedMap, queue, current_state, piece, direction, dequeued, enqueued,
             duplicatedNodes, has_won, soln, solution_state, w, radixTree,
             radixTrees, enq_log, heap>>
vars == <<init_data, alg, pc, report, shortest, runvars>>

NULL == [null |-> TRUE]
NoTree == [n |-> 0, atom |-> 0, keys |-> {}]
NoReport == [status |-> "none"]

num_pieces == init_data.num_pieces

(* --------------------- maps handed over by the loader ------------------ *)
\* make_map, find_player, find_pieces (gate.c, from the spec, 6): a grid of
\* lines rows, walls '#', goals 'G', every piece id exactly once, possibly
\* standing on a goal; map_save is the background under the pieces.
LoadedGate(h, wd, n, bg, px, py) ==
    [lines         |-> h,
     num_chars_map |-> h * wd,
     num_pieces    |-> n,
     player_x      |-> 0,
     player_y      |-> 0,
     map_save      |-> bg,
     map           |-> [i \in 0..(h - 1) |-> [j \in 0..(wd - 1) |->
                         IF \E p \in 0..(n - 1) : py[p] = i /\ px[p] = j
                         THEN PieceGlyph(CHOOSE p \in 0..(n - 1) : py[p] = i /\ px[p] = j,
                                         bg[i][j])
                         ELSE bg[i][j]]],
     piece_x       |-> px,
     piece_y       |-> py,
     soln          |-> << >>]

\* The placements of n pieces on distinct cells of bg that are not walls.
Placements(h, wd, n, bg) ==
    { q \in [0..(n - 1) -> 0..(wd - 1)] \X [0..(n - 1) -> 0..(h - 1)] :
        /\ \A a \in 0..(n - 1) : bg[q[2][a]][q[1][a]] # "#"
        /\ \A a, b \in 0..(n - 1) :
              a # b => (q[1][a] # q[1][b] \/ q[2][a] # q[2][b]) }

MapsOfShape(h, wd, n) ==
    UNION { { LoadedGate(h, wd, n, bg, q[1], q[2]) : q \in Placements(h, wd, n, bg) } :
            bg \in [0..(h - 1) -> [0..(wd - 1) -> {" ", "#", "G"}]] }

LoadableMaps ==
    UNION { MapsOfShape(s[1], s[2], s[3]) :
            s \in (1..GridH) \X (1..GridW) \X (0..MaxPieces) }

(* ---- the state graph: positions reachable by accepted moves ---------- *)
\* The terminal predicate (spec 4.6): no cell of the map is an unsatisfied
\* goal.
Winning(gate) ==
    \A i \in Rows(gate) : \A j \in Cols(gate) : gate.map[i][j] \notin UnsatisfiedGoals

Successors(gate) ==
    { applyAction(gate, pieceNames[p + 1], directions[d]).new_state :
        <<p, d>> \in { m \in (0..(gate.num_pieces - 1)) \X (1..4) :
                        applyAction(gate, pieceNames[m[1] + 1], directions[m[2]]).moved = 1 } }

Position(gate) == <<gate.piece_x, gate.piece_y>>

\* Breadth-first layers over positions: the depth of the first layer that
\* holds a winning state, -1 when the layers run dry.
RECURSIVE LayerDepth(_, _, _)
LayerDepth(layer, seen, depth) ==
    IF \E g \in layer : Winning(g) THEN depth
    ELSE LET next == { [c EXCEPT !.soln = << >>] :
                         c \in UNION { Successors(g) : g \in layer } }
             fresh == { c \in next : Position(c) \notin seen }
         IN  IF fresh = {} THEN -1
             ELSE LayerDepth(fresh, seen \cup { Position(c) : c \in fresh }, depth + 1)

ShortestSolution(gate) == LayerDepth({gate}, {Position(gate)}, 0)

Init ==
    /\ init_data \in LoadableMaps
    /\ alg = 0
    /\ pc = "idle"
    /\ packedMap = << >>
    /\ queue = << >>
    /\ current_state = NULL
    /\ piece = 0
    /\ direction = 0
    /\ dequeued = 0
    /\ enqueued = 0
    /\ duplicatedNodes = 0
    /\ has_won = FALSE
    /\ soln = << >>
    /\ solution_state = NULL
    /\ w = 0
    /\ radixTree = NoTree
    /\ radixTrees = << >>
    /\ report = [a \in 1..3 |-> NoReport]
    /\ enq_log = << >>
    /\ heap = NoHeap
    /\ shortest = ShortestSolution(init_data)

(* ======================= solve and find_solution ======================= *)
\* ai.c 806-832, 737-742: the map is loaded and find_solution runs one
\* search procedure on it, once: algo3 as the file stands, algo1 or algo2
\* when the call commented out beside it is the one compiled.
solve(a) ==
    /\ pc = "idle"
    /\ alg' = a
    /\ pc' = "init"
    /\ UNCHANGED <<init_data, report, shortest, runvars>>

\* The key bits packMap gives a state in a fresh buffer (history only).
PositionKey(gate) ==
    KeyBits(packMap(gate, calloc(getPackedSize(gate))), 0, getPackedSize(gate))

(* --------------------------- initialisation ---------------------------- *)
\* ai.c 198-223
algo1_init ==
    /\ alg = 1 /\ pc = "init"
    /\ packedMap' = calloc(getPackedSize(init_data))
    /\ w' = init_data.num_pieces + 1
    /\ LET duplicate == duplicate_state(init_data)
       IN  /\ queue' = enqueue(make_empty_queue, duplicate)
           /\ enq_log' = <<PositionKey(duplicate)>>
           /\ heap' = [malloc_state(heap) EXCEPT !.queue = <<heap.next + 1>>]
    /\ pc' = "loop"
    /\ UNCHANGED <<init_data, alg, report, shortest, current_state, piece, direction,
                   dequeued, enqueued, duplicatedNodes, has_won, soln, solution_state,
                   radixTree, radixTrees>>

\* ai.c 354-388: the buffer, the radix tree, the duplicate and the queue are
\* made, and the duplicate is enqueued and counted.
algo2_init ==
    /\ alg = 2 /\ pc = "init"
    /\ packedMap' = calloc(getPackedSize(init_data))
    /\ w' = init_data.num_pieces + 1
    /\ LET duplicate == duplicate_state(init_data)
           treeHeight == init_data.lines
           treeWidth  == init_data.num_chars_map \div init_data.lines
       IN  /\ radixTree' = getNewRadixTree(num_pieces, treeHeight, treeWidth)
           /\ queue' = enqueue(make_empty_queue, duplicate)
           /\ enqueued' = enqueued + 1
           /\ enq_log' = <<PositionKey(duplicate)>>
           /\ heap' = [malloc_state(heap) EXCEPT !.queue = <<heap.next + 1>>]
    /\ pc' = "seed"
    /\ UNCHANGED <<init_data, alg, report, shortest, current_state, piece, direction,
                   dequeued, duplicatedNodes, has_won, soln, solution_state, radixTrees>>

\* ai.c 391-392: the initial state, which is in the queue already, is packed
\* and its key inserted in the radix tree.
algo2_insert_initial ==
    /\ alg = 2 /\ pc = "seed"
    /\ \E packed \in {packMap(Head(queue), packedMap)} :
          /\ packedMap' = packed
          /\ radixTree' = insertRadixTree(radixTree, packed, num_pieces)
    /\ pc' = "loop"
    /\ UNCHANGED <<init_data, alg, report, shortest, queue, current_state, piece,
                   direction, dequeued, enqueued, duplicatedNodes, has_won, soln,
                   solution_state, w, radixTrees, enq_log, heap>>

\* ai.c 545-572: up to the first test of the width loop (w = 1).
algo3_init ==
    /\ alg = 3 /\ pc = "init"
    /\ packedMap' = calloc(getPackedSize(init_data))
    /\ w' = 1
    /\ pc' = "width"
    /\ UNCHANGED <<init_data, alg, report, shortest, queue, current_state, piece,
                   direction, dequeued, enqueued, duplicatedNodes, has_won, soln,
                   solution_state, radixTree, radixTrees, enq_log, heap>>

\* The trees T[1..w], each holding the s-combinations of the packed key
\* (ai.c 581-584 and 594-596).
RECURSIVE insertInitial(_, _, _, _)
insertInitial(trees, packed, s, width) ==
    IF s > width THEN trees
    ELSE insertInitial([trees EXCEPT ![s] = insertRadixTreenCr(trees[s], packed, s)],
                       packed, s + 1, width)

\* A width loop that tries one width more than there are pieces.
widthInRange_plusOne(width, numPieces) == width <= numPieces + 1

\* ai.c 572: the condition of for (w = 1; w <= num_pieces; w++).
widthInRange(width, numPieces) == width <= numPieces

\* ai.c 572-596: the test w <= num_pieces and the set-up of one width, or
\* the exit of the width loop to the statistics.
algo3_width ==
    /\ alg = 3 /\ pc = "width"
    /\ IF widthInRange(w, num_pieces)
       THEN LET duplicate  == duplicate_state(init_data)
                packed     == packMap(duplicate, packedMap)
                treeHeight == init_data.lines
                treeWidth  == init_data.num_chars_map \div init_data.lines
                fresh      == [i \in 1..w |->
                                 getNewRadixTree(num_pieces, treeHeight, treeWidth)]
            IN  /\ queue' = enqueue(make_empty_queue, duplicate)
                /\ enqueued' = enqueued + 1
                /\ packedMap' = packed
                /\ radixTrees' = insertInitial(fresh, packed, 1, w)
                /\ enq_log' = <<PositionKey(duplicate)>>
                /\ heap' = [malloc_state(heap) EXCEPT !.queue = <<heap.next + 1>>]
                /\ pc' = "loop"
       ELSE /\ pc' = "stats"
            /\ UNCHANGED <<queue, enqueued, packedMap, radixTrees, enq_log, heap>>
    /\ UNCHANGED <<init_data, alg, report, shortest, current_state, piece, direction,
                   dequeued, duplicatedNodes, has_won, soln, solution_state, w,
                   radixTree>>

(* ------------------ the search loop shared by the three ---------------- *)
\* while (!is_empty_queue(queue)) { dequeue; dequeued++; winning test }
\* (ai.c 227-245, 396-414, 600-618).
search_pop ==
    /\ pc = "loop"
    /\ ~is_empty_queue(queue)
    /\ LET cur == dequeue_data(queue)
       IN  /\ queue' = dequeue_rest(queue)
           /\ dequeued' = dequeued + 1
           /\ \E won \in winning_state(cur) :
              IF won
              THEN /\ soln' = cur.soln
                   /\ solution_state' = cur
                   /\ has_won' = TRUE
                   /\ current_state' = NULL
                   /\ heap' = [deref(heap, Head(heap.queue)) EXCEPT
                                 !.queue = Tail(@), !.solution = Head(heap.queue)]
                   /\ pc' = "ended"
              ELSE /\ current_state' = cur
                   /\ heap' = [deref(heap, Head(heap.queue)) EXCEPT
                                 !.queue = Tail(@), !.current = Head(heap.queue)]
                   /\ pc' = "expand"
                   /\ UNCHANGED <<soln, solution_state, has_won>>
    /\ piece' = 0
    /\ direction' = 0
    /\ UNCHANGED <<init_data, alg, report, shortest, packedMap, enqueued,
                   duplicatedNodes, w, radixTree, radixTrees, enq_log>>

\* The loop test fails: the open list is exhausted.
search_exit ==
    /\ pc = "loop"
    /\ is_empty_queue(queue)
    /\ pc' = "ended"
    /\ UNCHANGED <<init_data, alg, report, shortest, runvars>>

\* direction++ and, after the fourth direction, piece++.
NextMove ==
    /\ direction' = (direction + 1) % 4
    /\ piece' = IF direction = 3 THEN piece + 1 ELSE piece

\* The child applyAction builds for the move the loop counters name.
ChildOf(state, p, d) == applyAction(state, pieceNames[p + 1], directions[d + 1])

\* The part of a run of algo1 the state space holds.  The code has no such
\* limit: past it the run goes on as before, and no state behind it is
\* looked at.
WithinBounds ==
    Len(queue) < MaxQueue /\ Len(current_state.soln) \div 2 < MaxMoves

\* ai.c 248-267: one turn of the inner for loop of algo1.
algo1_child ==
    /\ alg = 1 /\ pc = "expand" /\ piece < num_pieces
    /\ WithinBounds
    /\ \E r \in {ChildOf(current_state, piece, direction)} :
       \E h \in {malloc_state(deref(heap, heap.current))} :
           IF r.moved = 0
           THEN /\ heap' = free_state(h, h.next)
                /\ NextMove
                /\ UNCHANGED <<pc, queue, enqueued, enq_log>>
           ELSE /\ enqueued' = enqueued + 1
                /\ queue' = enqueue(queue, r.new_state)
                /\ heap' = [h EXCEPT !.queue = Append(@, h.next)]
                /\ enq_log' = Append(enq_log, PositionKey(r.new_state))
                /\ NextMove
                /\ UNCHANGED pc
    /\ UNCHANGED <<init_data, alg, report, shortest, packedMap, current_state, dequeued,
                   duplicatedNodes, has_won, soln, solution_state, w, radixTree,
                   radixTrees>>

\* ai.c 417-448: one turn of the inner for loop of algo2.
algo2_child ==
    /\ alg = 2 /\ pc = "expand" /\ piece < num_pieces
    /\ \E r \in {ChildOf(current_state, piece, direction)} :
       \E packed \in {packMap(r.new_state, packedMap)} :
       \E seen \in {algo2_prune(radixTree, packed, num_pieces)} :
       \E h \in {malloc_state(deref(heap, heap.current))} :
           IF r.moved = 0
           THEN /\ heap' = free_state(h, h.next)
                /\ NextMove
                /\ UNCHANGED <<pc, queue, enqueued, enq_log, packedMap, radixTree,
                               duplicatedNodes>>
           ELSE IF seen.present
           THEN /\ packedMap' = packed
                /\ duplicatedNodes' = duplicatedNodes + 1
                /\ heap' = free_state(deref(h, h.next), h.next)
                /\ NextMove
                /\ UNCHANGED <<pc, queue, enqueued, enq_log, radixTree>>
           ELSE /\ packedMap' = packed
                /\ radixTree' = seen.radixTree
                /\ enqueued' = enqueued + 1
                /\ UNCHANGED duplicatedNodes
                /\ queue' = enqueue(queue, r.new_state)
                /\ heap' = [deref(h, h.next) EXCEPT !.queue = Append(@, h.next)]
                /\ enq_log' = Append(enq_log, PositionKey(r.new_state))
                /\ NextMove
                /\ UNCHANGED pc
    /\ UNCHANGED <<init_data, alg, report, shortest, current_state, dequeued, has_won,
                   soln, solution_state, w, radixTrees>>

\* ai.c 621-660: one turn of the inner for loop of algo3.
algo3_child ==
    /\ alg = 3 /\ pc = "expand" /\ piece < num_pieces
    /\ \E r \in {ChildOf(current_state, piece, direction)} :
       \E packed \in {packMap(r.new_state, packedMap)} :
       \E nov \in {noveltyLoop(radixTrees, packed, 1, w, FALSE)} :
       \E h \in {malloc_state(deref(heap, heap.current))} :
           IF r.moved = 0
           THEN /\ heap' = free_state(h, h.next)
                /\ NextMove
                /\ UNCHANGED <<pc, queue, enqueued, enq_log, packedMap, radixTrees,
                               duplicatedNodes>>
           ELSE /\ packedMap' = packed
                /\ radixTrees' = nov.radixTrees
                /\ IF ~nov.novel
                   THEN /\ duplicatedNodes' = duplicatedNodes + 1
                        /\ heap' = free_state(deref(h, h.next), h.next)
                        /\ NextMove
                        /\ UNCHANGED <<pc, queue, enqueued, enq_log>>
                   ELSE /\ enqueued' = enqueued + 1
                        /\ UNCHANGED duplicatedNodes
                        /\ queue' = enqueue(queue, r.new_state)
                        /\ heap' = [deref(h, h.next) EXCEPT !.queue = Append(@, h.next)]
                        /\ enq_log' = Append(enq_log, PositionKey(r.new_state))
                        /\ NextMove
                        /\ UNCHANGED pc
    /\ UNCHANGED <<init_data, alg, report, shortest, current_state, dequeued, has_won,
                   soln, solution_state, w, radixTree>>

\* Both for loops are over: free_state(current_state) (ai.c 271, 452, 665).
search_free ==
    /\ pc = "expand" /\ piece >= num_pieces
    /\ current_state' = NULL
    /\ heap' = [free_state(heap, heap.current) EXCEPT !.current = 0]
    /\ pc' = "loop"
    /\ UNCHANGED <<init_data, alg, report, shortest, packedMap, queue, piece, direction,
                   dequeued, enqueued, duplicatedNodes, has_won, soln, solution_state,
                   w, radixTree, radixTrees, enq_log>>

(* ------------------------------ clean-up ------------------------------- *)
\* One turn of the drain loop (ai.c 277-280, 458-461, 671-673).
drain_one ==
    /\ pc \in {"ended", "drain"}
    /\ ~is_empty_queue(queue)
    /\ queue' = dequeue_rest(queue)
    /\ heap' = [free_state(heap, Head(heap.queue)) EXCEPT !.queue = Tail(@)]
    /\ pc' = "drain"
    /\ UNCHANGED <<init_data, alg, report, shortest, packedMap, current_state, piece,
                   direction, dequeued, enqueued, duplicatedNodes, has_won, soln,
                   solution_state, w, radixTree, radixTrees, enq_log>>

\* free_queue (ai.c 281, 462) and on to the statistics.
drain_done ==
    /\ alg \in {1, 2}
    /\ pc \in {"ended", "drain"}
    /\ is_empty_queue(queue)
    /\ heap' = free_queue(heap)
    /\ pc' = "stats"
    /\ UNCHANGED <<init_data, alg, report, shortest, packedMap, queue, current_state,
                   piece, direction, dequeued, enqueued, duplicatedNodes, has_won, soln,
                   solution_state, w, radixTree, radixTrees, enq_log>>

\* Mutant: the trees of the width are kept.
freeRadixTrees_keep(trees) == trees

\* ai.c 677-680: every tree of the width and the array are freed.
freeRadixTrees(trees) == << >>

\* ai.c 674-686: free_queue, free the trees, then break if has_won, else w++.
algo3_next_width ==
    /\ alg = 3
    /\ pc \in {"ended", "drain"}
    /\ is_empty_queue(queue)
    /\ heap' = free_queue(heap)
    /\ radixTrees' = freeRadixTrees(radixTrees)
    /\ IF has_won THEN pc' = "stats" /\ w' = w
                  ELSE pc' = "width" /\ w' = w + 1
    /\ UNCHANGED <<init_data, alg, report, shortest, packedMap, queue, current_state,
                   piece, direction, dequeued, enqueued, duplicatedNodes, has_won, soln,
                   solution_state, radixTree, enq_log>>

(* ----------------------------- statistics ------------------------------ *)
\* Number of ' ' cells of the winning state (ai.c 300-311).
emptySpaces ==
    IF solution_state = NULL THEN 0
    ELSE Cardinality({ c \in Rows(solution_state) \X Cols(solution_state) :
                         solution_state.map[c[1]][c[2]] = " " })

\* The lines printed (ai.c 285-315, 466-496, 690-720), and has_won.
Statistics ==
    [status      |-> "printed",
     has_won     |-> has_won,
     soln        |-> soln,
     expanded    |-> dequeued,
     generated   |-> enqueued,
     duplicated  |-> duplicatedNodes,
     pieces      |-> init_data.num_pieces,
     steps       |-> Len(soln) \div 2,
     emptySpaces |-> emptySpaces,
     w           |-> w,
     log         |-> enq_log]    \* history, not printed

\* The statistics are printed, then packedMap, the tree, the winning state,
\* the solution string and, by free_initial_state, the buffers of init_data
\* are freed (ai.c 319-328, 500-512, 724-731); nothing runs after that.
\* init_data keeps its value as the record of what was loaded.
print_stats ==
    /\ pc = "stats"
    /\ report' = [report EXCEPT ![alg] = Statistics]
    /\ packedMap' = << >>
    /\ radixTree' = NoTree
    /\ solution_state' = NULL
    /\ soln' = << >>
    /\ heap' = [(IF heap.solution = 0 THEN heap
                 ELSE [free_state(deref(heap, heap.solution), heap.solution)
                         EXCEPT !.solution = 0])
                   EXCEPT !.init_data = "freed"]
    /\ pc' = "done"
    /\ UNCHANGED <<init_data, alg, shortest, queue, current_state, piece, direction,
                   dequeued, enqueued, duplicatedNodes, has_won, w, radixTrees, enq_log>>

Next ==
    \/ \E a \in 1..3 : solve(a)
    \/ algo1_init
    \/ algo2_init
    \/ algo2_insert_initial
    \/ algo3_init
    \/ algo3_width
    \/ search_pop
    \/ search_exit
    \/ algo1_child
    \/ algo2_child
    \/ algo3_child
    \/ search_free
    \/ drain_one
    \/ drain_done
    \/ algo3_next_width
    \/ print_stats

Spec == Init /\ [][Next]_vars

\* The engine is single-threaded and runs to completion: a run that can take
\* a step takes it.
FairSpec == Init /\ [][Next]_vars /\ WF_vars(Next)

(* ------------------------- packMap on its own -------------------------- *)
\* The states of one shape a run hands to packMap: pieces on distinct cells
\* of a grid without walls.
PackGates(h, wd, n) ==
    { LoadedGate(h, wd, n, [i \in 0..(h - 1) |-> [j \in 0..(wd - 1) |-> " "]],
                 q[1], q[2]) :
        q \in Placements(h, wd, n, [i \in 0..(h - 1) |-> [j \in 0..(wd - 1) |-> " "]]) }

SameShape(g) == PackGates(g.lines, g.num_chars_map \div g.lines, g.num_pieces)

\* init_data is the state to pack, current_state the state packed before it
\* (NULL at first), packedMap the buffer calloc made and every call reuses.
PackInit ==
    /\ \E s \in (1..PackH) \X (1..PackW) \X (0..PackPieces) :
          /\ s[1] * s[2] <= PackCells
          /\ init_data \in PackGates(s[1], s[2], s[3])
    /\ packedMap = calloc(getPackedSize(init_data))
    /\ current_state = NULL
    /\ pc = "pack"
    /\ alg = 0
    /\ queue = << >>
    /\ piece = 0
    /\ direction = 0
    /\ dequeued = 0
    /\ enqueued = 0
    /\ duplicatedNodes = 0
    /\ has_won = FALSE
    /\ soln = << >>
    /\ solution_state = NULL
    /\ w = 0
    /\ radixTree = NoTree
    /\ radixTrees = << >>
    /\ report = [a \in 1..3 |-> NoReport]
    /\ enq_log = << >>
    /\ heap = NoHeap
    /\ shortest = 0

\* packMap(new_state, packedMap) (ai.c 391, 434, 593, 638).
pack_call ==
    /\ pc = "pack"
    /\ packedMap' = packMap(init_data, packedMap)
    /\ pc' = "packed"
    /\ UNCHANGED <<init_data, current_state, alg, queue, piece, direction, dequeued,
                   enqueued, duplicatedNodes, has_won, soln, solution_state, w,
                   radixTree, radixTrees, report, enq_log, heap, shortest>>

\* The next state to pack, in the same buffer.
pack_next ==
    /\ pc = "packed"
    /\ current_state' = init_data
    /\ init_data' \in SameShape(init_data)
    /\ pc' = "pack"
    /\ UNCHANGED <<packedMap, alg, queue, piece, direction, dequeued, enqueued,
                   duplicatedNodes, has_won, soln, solution_state, w, radixTree,
                   radixTrees, report, enq_log, heap, shortest>>

PackNext == pack_call \/ pack_next

PackSpec == PackInit /\ [][PackNext]_vars

(* --------------- the queue on its own (queue.c 6-45) ------------------ *)
\* The queue as queue.c builds it: nodes with a data handle and a next
\* pointer, a head and a tail (food) pointer; 0 is the null pointer.
MaxEnqueue == 5
Handles == 1..3

\* queue.c 6-12
linked_make_empty_queue == [head |-> 0, food |-> 0, node |-> << >>]

\* Mutant: the new node is linked in at the head.
linked_enqueue_front(q, data, id) ==
    [head |-> id,
     food |-> IF q.head = 0 THEN id ELSE q.food,
     node |-> [n \in DOMAIN q.node \cup {id} |->
                 IF n = id THEN [data |-> data, next |-> q.head] ELSE q.node[n]]]

\* queue.c 14-27; id is the node malloc returns.
linked_enqueue(q, data, id) ==
    [head |-> IF q.head = 0 THEN id ELSE q.head,
     food |-> id,
     node |-> [n \in DOMAIN q.node \cup {id} |->
                 IF n = id THEN [data |-> data, next |-> 0]
                 ELSE IF q.head # 0 /\ n = q.food
                      THEN [q.node[n] EXCEPT !.next = id]
                      ELSE q.node[n]]]

\* queue.c 29-40: the data of the head node, and the queue without it.
linked_dequeue(q) ==
    LET head == q.head
        rest == q.node[head].next
    IN  [data  |-> q.node[head].data,
         queue |-> [head |-> rest,
                    food |-> IF rest = 0 THEN 0 ELSE q.food,
                    node |-> [n \in DOMAIN q.node \ {head} |-> q.node[n]]]]

\* queue.c 42-45
linked_is_empty_queue(q) == q.head = 0

\* queue holds the linked queue, enq_log the handles enqueued so far,
\* current_state the handle the last dequeue returned.
QueueInit ==
    /\ queue = linked_make_empty_queue
    /\ enq_log = << >>
    /\ current_state = NULL
    /\ enqueued = 0
    /\ dequeued = 0
    /\ pc = "queue"
    /\ init_data = NULL
    /\ packedMap = << >>
    /\ alg = 0
    /\ piece = 0
    /\ direction = 0
    /\ duplicatedNodes = 0
    /\ has_won = FALSE
    /\ soln = << >>
    /\ solution_state = NULL
    /\ w = 0
    /\ radixTree = NoTree
    /\ radixTrees = << >>
    /\ report = [a \in 1..3 |-> NoReport]
    /\ heap = NoHeap
    /\ shortest = 0

\* enqueue(queue, data) with a non-null handle.
queue_enqueue ==
    /\ enqueued < MaxEnqueue
    /\ \E data \in Handles :
          /\ queue' = linked_enqueue(queue, data, enqueued + 1)
          /\ enq_log' = Append(enq_log, data)
    /\ enqueued' = enqueued + 1
    /\ UNCHANGED <<init_data, packedMap, current_state, alg, pc, piece, direction,
                   dequeued, duplicatedNodes, has_won, soln, solution_state, w,
                   radixTree, radixTrees, report, heap, shortest>>

\* dequeue(queue), called on a non-empty queue only (assert, queue.c 31).
queue_dequeue ==
    /\ ~linked_is_empty_queue(queue)
    /\ \E r \in {linked_dequeue(queue)} :
          /\ current_state' = r.data
          /\ queue' = r.queue
    /\ dequeued' = dequeued + 1
    /\ UNCHANGED <<init_data, packedMap, alg, pc, piece, direction, enqueued,
                   duplicatedNodes, has_won, soln, solution_state, w, radixTree,
                   radixTrees, report, enq_log, heap, shortest>>

QueueNext == queue_enqueue \/ queue_dequeue

QueueSpec == QueueInit /\ [][QueueNext]_vars

(* ============================== properties ============================= *)
Printed(a) == report[a].status = "printed"

\* The key of the last state packed into the buffer.
LastKey == KeyBits(packedMap, 0, getPackedSize(init_data))

\* The child the next turn of the inner loop builds, when the move is accepted.
ChildTurn == pc = "expand" /\ piece < num_pieces /\ (alg = 1 => WithinBounds)
Accepted == ChildOf(current_state, piece, direction).moved = 1
Child == ChildOf(current_state, piece, direction).new_state

\* The s-combinations of the atoms of a state that tree T[s] lacks.
Missing(gate, s) ==
    { S \in Combinations(num_pieces, s) :
        SubKey(radixTrees[s], packMap(gate, calloc(getPackedSize(gate))), S)
            \notin radixTrees[s].keys }

\* No cell of the loaded map holds an unsatisfied goal.
AlreadyWon ==
    \A i \in Rows(init_data) : \A j \in Cols(init_data) :
        init_data.map[i][j] \notin UnsatisfiedGoals

\* The map has two rows or more: the rows of every state of the run end in
\* '\0' and winning_state has one result.
TwoRows == RowTerminated(init_data)

\* C1: when algo1 or algo2 has found a solution, its number of moves is the
\* least number of accepted moves leading from the initial state to a
\* winning state.
C1_BfsOptimal ==
    (alg \in {1, 2} /\ pc = "stats" /\ has_won) => Len(soln) \div 2 = shortest

\* C1 on the maps of two rows or more.
C1_TwoRows == TwoRows => C1_BfsOptimal

C1_Witness ==
    alg = 1 /\ pc = "stats" /\ has_won /\ Len(soln) >= 6

\* C2: algo1 and algo2 are two runs on the map; each, when it has ended,
\* has found a solution exactly when the map has one, and of the least
\* number of moves, so that algo2 reports a solution exactly when algo1
\* does and of the same number of moves.
C2_SameLength ==
    (alg \in {1, 2} /\ pc = "stats") =>
        /\ has_won = (shortest >= 0)
        /\ has_won => Len(soln) \div 2 = shortest

\* C2 on the maps of two rows or more.
C2_TwoRows == TwoRows => C2_SameLength

C2_Witness ==
    /\ alg = 2 /\ pc = "stats"
    /\ has_won /\ Len(soln) >= 4 /\ duplicatedNodes > 0

\* No winning state is reachable from the loaded map.
Unsolvable == shortest = -1

\* No move is accepted in the loaded map.
BoxedIn == Successors(init_data) = {}

\* The statistics of algorithm b show an empty solution of 0 steps.
EmptyReport(b) ==
    Printed(b) /\ ~report[b].has_won /\ report[b].soln = << >> /\ report[b].steps = 0

\* The search expands a state, reached by moves, in which every piece is
\* where it is in the initial state.  The moves accepted in a state and the
\* states they lead to depend on the positions of the pieces alone, so a
\* search that enqueues every accepted child finds below this state what it
\* found below the initial one, this state again included: on a map without
\* a winning state it has no end.
C3_Recurs ==
    /\ pc = "expand" /\ current_state # NULL
    /\ current_state.soln # << >>
    /\ PositionKey(current_state) = PositionKey(init_data)

\* C3 as claimed: on an unsolvable map each of algo1, algo2 and algo3
\* eventually ends with its queue empty and prints an empty solution, 0
\* steps; a search that ends has not come back to expand the positions it
\* started from.
C3_AllTerminate ==
    /\ (Unsolvable /\ pc = "init")
          ~> (pc = "done" /\ queue = << >> /\ EmptyReport(alg))
    /\ [](Unsolvable => ~C3_Recurs)

\* The state algo1 enqueued last and the one it expands have an accepted
\* move, the queue is not empty at the loop test and the loop is not left.
C3_NeverDry ==
    /\ queue # << >> => Successors(queue[Len(queue)]) # {}
    /\ current_state # NULL => Successors(current_state) # {}
    /\ pc = "loop" => queue # << >>
    /\ pc \in {"init", "loop", "expand"}

\* A search of algo2 or algo3 enqueues no tuple of piece positions twice:
\* the one enqueued last was not enqueued before.
C3_OncePerTuple ==
    alg \in {2, 3} =>
        \A i \in 1..(Len(enq_log) - 1) : enq_log[i] # enq_log[Len(enq_log)]

\* C3 as amended: on an unsolvable map algo2 and algo3 eventually end so,
\* each of their searches enqueueing a tuple of piece positions once at
\* most, and algo1 does when no move is accepted in the initial state; when
\* a move is accepted there, every state algo1 dequeues has an accepted
\* move, whose child it enqueues, so its queue is never empty at the loop
\* test and it never leaves its search loop.  algo2 and algo3 never come
\* back to expand the positions they started from.
C3_PrunedTerminate ==
    /\ (Unsolvable /\ pc = "init" /\ (alg = 1 => BoxedIn))
          ~> (pc = "done" /\ queue = << >> /\ EmptyReport(alg))
    /\ []((Unsolvable /\ alg = 1 /\ ~BoxedIn) => C3_NeverDry)
    /\ []C3_OncePerTuple
    /\ []((Unsolvable /\ alg \in {2, 3}) => ~C3_Recurs)

C3_Witness ==
    alg = 3 /\ pc = "done" /\ shortest = -1 /\ report[3].duplicated > 0

\* The keys of the states algo2 has enqueued are pairwise different.
C4_Distinct ==
    alg = 2 => \A i, j \in 1..Len(enq_log) : enq_log[i] = enq_log[j] => i = j

\* The key of every state algo2 has enqueued is in the radix set (which the
\* statistics free).
C4_InSet ==
    alg = 2 =>
        /\ \A i \in 1..Len(enq_log) : enq_log[i] \in radixTree.keys \/ pc \in {"done", "init"}
        /\ \A i \in 1..Len(queue) : PositionKey(queue[i]) \in radixTree.keys

\* Between ai.c 388 and ai.c 391 the initial state is in the queue, counted,
\* and the radix set is empty; nothing was dequeued.
C4_Seed ==
    (alg = 2 /\ pc = "seed") =>
        /\ Len(queue) = 1 /\ enq_log = <<PositionKey(queue[1])>>
        /\ radixTree.keys = {}
        /\ enqueued = 1 /\ dequeued = 0 /\ current_state = NULL

\* A child whose key is in the set is counted in duplicated, freed and not
\* enqueued; any other child's key is inserted and the child enqueued, its
\* struct live and held by the new last node of the queue.
C4_Step ==
    (alg = 2 /\ ChildTurn /\ Accepted) =>
        IF PositionKey(Child) \in radixTree.keys
        THEN /\ queue' = queue
             /\ duplicatedNodes' = duplicatedNodes + 1
             /\ enqueued' = enqueued
             /\ radixTree' = radixTree
             /\ heap'.next = heap.next + 1
             /\ heap'.live = heap.live
             /\ heap'.freed = heap.freed + 1
             /\ heap'.queue = heap.queue
        ELSE /\ PositionKey(Child) \in radixTree'.keys
             /\ duplicatedNodes' = duplicatedNodes
             /\ enqueued' = enqueued + 1
             /\ queue' = Append(queue, Child)
             /\ heap'.live = heap.live \cup {heap.next + 1}
             /\ heap'.freed = heap.freed
             /\ heap'.queue = Append(heap.queue, heap.next + 1)

\* C4 as claimed: in a run of algo2 the keys of the states enqueued, the
\* initial state included, are pairwise different; the key of every state
\* is in the radix set before the state is enqueued, so a state in the queue
\* has its key in the set; a child whose key is in the set is counted in
\* duplicated, freed and not enqueued.
C4_KeyBeforeEnqueue == [](C4_Distinct /\ C4_InSet) /\ [][C4_Step]_vars

\* C4 as amended: the same, but the initial state is enqueued first and its
\* key inserted next, before the first test of the loop; from then on every
\* state enqueued has its key in the set.
C4_NoDuplicateKey ==
    /\ [](C4_Distinct /\ C4_Seed /\ (pc # "seed" => C4_InSet))
    /\ [][C4_Step]_vars

C4_Witness ==
    alg = 2 /\ pc = "expand" /\ duplicatedNodes >= 2 /\ Len(enq_log) >= 3

\* C5: in algo3 at width w an accepted child is enqueued exactly when, for
\* some s in 1..w, tree T[s] lacks an s-combination of the child's atoms at
\* the time the child is checked; otherwise duplicated is incremented and
\* the child is not enqueued.
C5_Step ==
    (alg = 3 /\ ChildTurn /\ Accepted) =>
        IF \E s \in 1..w : Missing(Child, s) # {}
        THEN /\ enqueued' = enqueued + 1
             /\ duplicatedNodes' = duplicatedNodes
             /\ queue' = Append(queue, Child)
        ELSE /\ queue' = queue
             /\ enqueued' = enqueued
             /\ duplicatedNodes' = duplicatedNodes + 1

C5_NovelIffMissing == [][C5_Step]_vars

C5_Witness ==
    /\ alg = 3 /\ pc = "expand" /\ w = 2
    /\ duplicatedNodes > 0 /\ Len(enq_log) >= 3

\* C6: in algo3 at width w, once an accepted child has gone through the
\* novelty loop, every s-combination of its atoms is in T[s], for every s in
\* 1..w, whether the child was enqueued or pruned.
C6_Step ==
    (alg = 3 /\ ChildTurn /\ Accepted) =>
        \A s \in 1..w : \A S \in Combinations(num_pieces, s) :
            SubKey(radixTrees[s], packMap(Child, calloc(getPackedSize(Child))), S)
                \in radixTrees'[s].keys

C6_AllInserted == [][C6_Step]_vars

\* The last child packed was pruned at width 1, in a position never enqueued,
\* and its atoms are in T[1].
C6_Witness ==
    /\ alg = 3 /\ pc = "expand" /\ w = 1 /\ num_pieces = 2 /\ duplicatedNodes > 0
    /\ \A i \in 1..Len(enq_log) : enq_log[i] # LastKey
    /\ \A S \in Combinations(num_pieces, 1) :
          SubKey(radixTrees[1], packedMap, S) \in radixTrees[1].keys

\* C7: when the search loop is left (goal found or queue exhausted) and the
\* queue is not yet drained, expanded + the length of the queue is at most
\* generated + 1.
C7_CounterConsistency ==
    pc = "ended" => dequeued + Len(queue) <= enqueued + 1

C7_Witness ==
    pc = "ended" /\ alg = 3 /\ has_won /\ Len(queue) >= 2

\* C8 as claimed: the final counters of every run satisfy
\* duplicated + generated <= expanded * 4 * num_pieces.
C8_AnyPieces ==
    pc = "stats" => duplicatedNodes + enqueued <= dequeued * 4 * num_pieces

\* C8 as amended: the same, on maps with at least one piece.
C8_SomePiece ==
    (pc = "stats" /\ num_pieces >= 1) =>
        duplicatedNodes + enqueued <= dequeued * 4 * num_pieces

C8_Witness ==
    /\ pc = "stats" /\ alg = 3 /\ num_pieces >= 1
    /\ duplicatedNodes > 0 /\ enqueued > 2

\* C9: on a map that is already won the run prints an empty solution,
\* expanded = 1, and generated = 0 for algo1 and algo2, 1 for algo3.
C9_AlreadyWonClaimed ==
    (AlreadyWon /\ pc = "done") =>
        /\ report[alg].soln = << >>
        /\ report[alg].expanded = 1
        /\ report[alg].generated = (IF alg = 3 THEN 1 ELSE 0)

\* C9 for algo1, which does not count the initial state (ai.c 223): on a
\* map that is already won algo1 prints an empty solution, expanded = 1 and
\* generated = 0.
C9_Algo1 ==
    (AlreadyWon /\ alg = 1 /\ pc = "done") =>
        /\ report[1].soln = << >>
        /\ report[1].expanded = 1
        /\ report[1].generated = 0

\* On a one-row map that is already won the goal test of the initial state
\* has read past the row and failed: algo1 has expanded it and gone on.
C9_OverRead ==
    /\ AlreadyWon /\ ~TwoRows /\ alg = 1 /\ pc = "done"
    /\ report[1].expanded > 1 /\ report[1].generated > 0

\* C9 on the maps of two rows or more, with the counts the three procedures
\* keep: an empty solution of 0 steps; expanded = 1 and generated = 0 for
\* algo1; expanded = 1 and generated = 1 for algo2, which counts the initial
\* state (ai.c 388), and for algo3 on a map with pieces; algo3 on a map
\* without pieces does not enter its loop (ai.c 572) and prints 0 and 0.
C9_TwoRows ==
    (AlreadyWon /\ TwoRows /\ pc = "done") =>
        /\ report[alg].soln = << >>
        /\ report[alg].steps = 0
        /\ report[alg].expanded = (IF alg = 3 /\ num_pieces = 0 THEN 0 ELSE 1)
        /\ report[alg].generated =
               (IF alg = 1 \/ (alg = 3 /\ num_pieces = 0) THEN 0 ELSE 1)

\* C10: when algo3 has tried every width 1..N without finding a winning
\* state, it prints an empty solution, 0 steps, and the width N.
C10_LastWidth ==
    (alg = 3 /\ pc = "done" /\ ~report[3].has_won /\ num_pieces >= 1) =>
        /\ report[3].soln = << >>
        /\ report[3].steps = 0
        /\ report[3].w = num_pieces

\* C11: on a map without pieces algo3 leaves its width loop at once and
\* searches nothing: no state is duplicated, enqueued or dequeued, no radix
\* tree is built, and expanded, generated and duplicated are 0 throughout
\* and in the statistics.
C11_NoSearch ==
    (alg = 3 /\ num_pieces = 0) =>
        /\ pc \in {"init", "width", "stats", "done"}
        /\ queue = << >> /\ current_state = NULL /\ enq_log = << >>
        /\ radixTrees = << >>
        /\ dequeued = 0 /\ enqueued = 0 /\ duplicatedNodes = 0
        /\ pc = "done" =>
              /\ report[3].expanded = 0
              /\ report[3].generated = 0
              /\ report[3].duplicated = 0

C11_Witness ==
    /\ alg = 3 /\ num_pieces = 0 /\ pc = "done" /\ Printed(3)
    /\ init_data.num_chars_map = 4 /\ ~AlreadyWon

\* The structs the queue nodes, current_state and solution_state point to.
Held ==
    { heap.queue[i] : i \in 1..Len(heap.queue) }
        \cup ({heap.current, heap.solution} \ {0})

\* C12: in every run each state made by duplicate_state is freed exactly
\* once by the end of the run and never read after it was freed; during the
\* run the states not yet freed are those in the queue, the one being
\* expanded and the winning one; the winning state alone outlives the
\* search loop and is freed after the statistics; free_queue is called on
\* an empty queue only.
C12_Owned ==
    /\ heap.fault = "none"
    /\ heap.freed + Cardinality(heap.live) = heap.next
    /\ Len(heap.queue) = Len(queue)
    /\ heap.live = Held
    /\ Cardinality(Held) = Len(heap.queue)
                             + (IF heap.current = 0 THEN 0 ELSE 1)
                             + (IF heap.solution = 0 THEN 0 ELSE 1)
    /\ pc \in {"ended", "drain", "stats"} =>
          /\ heap.current = 0
          /\ (heap.solution # 0) = has_won
    /\ pc = "stats" => heap.live = (IF has_won THEN {heap.solution} ELSE {})
    /\ pc = "done" => (heap.live = {} /\ heap.freed = heap.next)

C12_FreeQueue ==
    (pc \in {"ended", "drain"} /\ pc' \notin {"ended", "drain"}) =>
        (queue = << >> /\ heap.queue = << >> /\ heap'.live = heap.live)

C12_FreedOnce == []C12_Owned /\ [][C12_FreeQueue]_vars

\* A run of algo3 that won, after rejected and pruned children, has ended
\* and freed every state it made.
C12_Witness ==
    /\ alg = 3 /\ pc = "done" /\ report[3].has_won /\ report[3].duplicated > 0
    /\ heap.next > report[3].generated + report[3].duplicated
    /\ heap.freed = heap.next /\ heap.freed >= 8

\* The calls of applyAction the expansion of current_state makes.
Moves == (0..(num_pieces - 1)) \X (0..3)
Expanding == pc = "expand" /\ num_pieces >= 1

\* A solution string made of (piece digit, direction letter) pairs.
MovePairs(str) ==
    /\ Len(str) % 2 = 0
    /\ \A k \in 1..Len(str) :
          IF k % 2 = 1 THEN \E i \in 1..10 : pieceNames[i] = str[k]
                       ELSE \E i \in 1..4 : directions[i] = str[k]

\* C13: for every call of applyAction, accepted or rejected, the child's
\* solution is the parent's followed by the piece and the direction, two
\* characters longer; every state in the queue has a solution of even
\* length made of (piece digit, direction letter) pairs.
C13_SolutionGrowth ==
    /\ Expanding =>
          \A m \in Moves :
              \A r \in {ChildOf(current_state, m[1], m[2])} :
                  /\ r.new_state.soln
                       = current_state.soln \o <<pieceNames[m[1] + 1], directions[m[2] + 1]>>
                  /\ Len(r.new_state.soln) = Len(current_state.soln) + 2
    /\ \A i \in 1..Len(queue) : MovePairs(queue[i].soln)

C13_Witness ==
    /\ Expanding /\ Len(current_state.soln) >= 4 /\ Len(queue) >= 2
    /\ \E m \in Moves : ChildOf(current_state, m[1], m[2]).moved = 0
    /\ \E m \in Moves : ChildOf(current_state, m[1], m[2]).moved = 1

\* C14: applyAction returns 1 exactly when the x or the y coordinate of the
\* piece moved differs in the child from the parent's, 0 otherwise, and
\* hands the child back in both cases.
C14_MovedIffChanged ==
    Expanding =>
        \A m \in Moves :
            \A r \in {ChildOf(current_state, m[1], m[2])} :
                /\ r.moved \in {0, 1}
                /\ (r.moved = 1) =
                       (\/ r.new_state.piece_x[m[1]] # current_state.piece_x[m[1]]
                        \/ r.new_state.piece_y[m[1]] # current_state.piece_y[m[1]])
                /\ r.new_state # NULL
                /\ r.new_state.num_pieces = current_state.num_pieces

\* A state in which a move up or down is accepted and a move left or right
\* is rejected.
C14_Witness ==
    /\ Expanding
    /\ \E m \in Moves :
          \E r \in {ChildOf(current_state, m[1], m[2])} :
              /\ r.moved = 1
              /\ r.new_state.piece_x[m[1]] = current_state.piece_x[m[1]]
    /\ \E m \in Moves : ChildOf(current_state, m[1], m[2]).moved = 0

\* C20: applyAction leaves the parent as it was, whether the move is
\* accepted or rejected: the cells of its map, piece_x, piece_y, player_x,
\* player_y and the solution string read through the parent's struct after
\* the call are those before it, and so is every block the parent's struct
\* points to; the move is in the duplicate, a struct of its own.
C20_ParentUnchanged ==
    Expanding =>
        \A m \in Moves :
            \A at \in {gate_in_store(current_state)} :
            \A r \in {applyAction_in(at.store, at.gate,
                                      pieceNames[m[1] + 1], directions[m[2] + 1])} :
            \A parent \in {deref_gate(r.store, at.gate)} :
                /\ parent.map = current_state.map
                /\ parent.piece_x = current_state.piece_x
                /\ parent.piece_y = current_state.piece_y
                /\ parent.player_x = current_state.player_x
                /\ parent.player_y = current_state.player_y
                /\ parent.soln = current_state.soln
                /\ \A a \in 1..Len(at.store) : r.store[a] = at.store[a]
                /\ r.new_state # at.gate
                /\ deref_gate(r.store, r.new_state) = ChildOf(current_state, m[1], m[2]).new_state
                /\ r.moved = ChildOf(current_state, m[1], m[2]).moved

\* A state of two pieces is being expanded; a move of it is accepted and
\* has written a cell of the duplicate's rows, another is rejected.
C20_Witness ==
    /\ Expanding /\ alg = 2 /\ num_pieces = 2
    /\ \E m \in Moves :
          \E at \in {gate_in_store(current_state)} :
          \E r \in {applyAction_in(at.store, at.gate,
                                    pieceNames[m[1] + 1], directions[m[2] + 1])} :
              /\ r.moved = 1
              /\ deref_gate(r.store, r.new_state).map # current_state.map
              /\ deref_gate(r.store, at.gate).map = current_state.map
    /\ \E m \in Moves : ChildOf(current_state, m[1], m[2]).moved = 0

\* The key in the buffer, and the fields of piece i read back from it.
BufferKey == KeyBits(packedMap, 0, getPackedSize(init_data))

FieldValue(from, len) ==
    LET Val[k \in 0..len] ==
            IF k = 0 THEN 0 ELSE Val[k - 1] + getBit(packedMap, from + k - 1) * 2^(k - 1)
    IN  Val[len]

AtomBits(g) ==
    calcBits(g.num_pieces) + calcBits(g.lines) + calcBits(g.num_chars_map \div g.lines)

ReadId(i) == FieldValue(i * AtomBits(init_data), calcBits(num_pieces))
ReadY(i) ==
    FieldValue(i * AtomBits(init_data) + calcBits(num_pieces), calcBits(init_data.lines))
ReadX(i) ==
    FieldValue(i * AtomBits(init_data) + calcBits(num_pieces) + calcBits(init_data.lines),
               calcBits(init_data.num_chars_map \div init_data.lines))

\* C15: for a fixed number of pieces, height and width and coordinates
\* inside the grid, reading the key back in fields of pBits, hBits and wBits
\* bits gives (i, piece_y[i], piece_x[i]) for every piece, and two states
\* with the same key have the same piece_x and piece_y.
C15_Injective ==
    pc = "packed" =>
        /\ \A i \in 0..(num_pieces - 1) :
              /\ ReadId(i) = i
              /\ ReadY(i) = init_data.piece_y[i]
              /\ ReadX(i) = init_data.piece_x[i]
        /\ (current_state # NULL /\ PositionKey(current_state) = BufferKey)
              => Position(current_state) = Position(init_data)

\* Three pieces on a grid of 3 rows, one of them in the last row, packed
\* after a state that differs from it in the place of piece 0 only.
C15_Witness ==
    /\ pc = "packed" /\ num_pieces = 3 /\ init_data.lines = 3
    /\ init_data.num_chars_map = 6
    /\ init_data.piece_x[2] = 1 /\ init_data.piece_y[2] = 2
    /\ current_state # NULL
    /\ current_state.piece_x[0] # init_data.piece_x[0]
    /\ \A i \in 1..2 : /\ current_state.piece_x[i] = init_data.piece_x[i]
                        /\ current_state.piece_y[i] = init_data.piece_y[i]

\* States with the pieces where g has them and other map cells, player
\* position and solution string.
Variants(g) ==
    { [g EXCEPT !.soln = <<"0", "u", "0", "d">>],
      [g EXCEPT !.player_x = 1, !.player_y = 1],
      [g EXCEPT !.map = g.map_save],
      [g EXCEPT !.map_save = [i \in Rows(g) |-> [j \in Cols(g) |-> "G"]],
                !.map = [i \in Rows(g) |-> [j \in Cols(g) |-> "#"]]] }

\* C16: packMap sets or clears each of the atom * num_pieces key bits, so
\* the key it leaves in the reused buffer is the one it writes into a zeroed
\* buffer, whatever key the buffer held; the bytes are the same for states
\* that differ in map cells, player position or solution only, and a second
\* call on the unchanged state changes nothing.
C16_Key ==
    pc = "packed" =>
        /\ BufferKey = PositionKey(init_data)
        /\ packMap(init_data, packedMap) = packedMap

C16_Step ==
    (pc = "pack" /\ pc' = "packed") =>
        \A v \in Variants(init_data) : packMap(v, packedMap) = packedMap'

C16_Deterministic == []C16_Key /\ [][C16_Step]_vars

\* The buffer held a key with a 1 where the key of the state packed now has
\* a 0, and with a 0 where it has a 1.
C16_Witness ==
    /\ pc = "packed" /\ num_pieces >= 2 /\ current_state # NULL
    /\ \E k \in 1..getPackedSize(init_data) :
          PositionKey(current_state)[k] = 1 /\ BufferKey[k] = 0
    /\ \E k \in 1..getPackedSize(init_data) :
          PositionKey(current_state)[k] = 0 /\ BufferKey[k] = 1

\* The states the run holds: the loaded one, those in the queue, the one
\* being expanded and the winning one.
StatesAtHand ==
    {init_data} \cup { queue[i] : i \in 1..Len(queue) }
        \cup ({current_state, solution_state} \ {NULL})

\* C17: winning_state(s) is true exactly when none of the height x width
\* cells of s.map holds 'G' or a letter in 'I'..'Q'; the search loop takes a
\* dequeued state for the winning one exactly then.
C17_Terminal ==
    /\ pc \in {"loop", "expand", "ended", "drain", "stats"} =>
          \A g \in StatesAtHand :
              winning_state(g) =
                  {\A i \in 0..(g.lines - 1) :
                      \A j \in 0..((g.num_chars_map \div g.lines) - 1) :
                          g.map[i][j] \notin {"G", "I", "J", "K", "L", "M", "N", "O", "P", "Q"}}
    /\ (pc = "expand") => ~Winning(current_state)
    /\ solution_state # NULL => Winning(solution_state)

\* C17 on the maps of two rows or more.
C17_TwoRows == TwoRows => C17_Terminal

\* The queue holds a state with piece 1 on a goal ('I') and no 'G' left,
\* which is not winning, and piece 0 stands on a goal ('H') in the state
\* being expanded.
C17_Witness ==
    /\ pc = "expand"
    /\ \E k \in 1..Len(queue) :
          /\ winning_state(queue[k]) = {FALSE}
          /\ \E c \in Rows(init_data) \X Cols(init_data) : queue[k].map[c[1]][c[2]] = "I"
          /\ \A c \in Rows(init_data) \X Cols(init_data) : queue[k].map[c[1]][c[2]] # "G"
    /\ \E c \in Rows(init_data) \X Cols(init_data) :
          current_state.map[c[1]][c[2]] = "H"

\* A winning state of one row was dequeued and not taken for a winning one:
\* it is being expanded.
C17_OverRead ==
    pc = "expand" /\ Winning(current_state) /\ ~RowTerminated(current_state)

\* Direction characters outside the four of directions.
BadDirections == {"x", "U", " "}

\* C18: given a direction outside {u,d,l,r}, the move applier refuses: it
\* hands back no child state, so none is produced, enqueued or counted from
\* such input.
C18_Refuses ==
    (pc = "expand" /\ piece < num_pieces) =>
        \A d \in BadDirections :
            \A r \in {applyAction(current_state, pieceNames[piece + 1], d)} :
                r.new_state = NULL

\* The place of a move in the order piece 0..N-1 (outer) by u, d, l, r
\* (inner).
MoveOrder == <<"u", "d", "l", "r">>
MoveRank(str, k) ==
    4 * PieceId(str[2 * k - 1]) + (CHOOSE n \in 1..4 : MoveOrder[n] = str[2 * k])

\* a comes before b: it is shorter, or as long and smaller at the first
\* move where the two differ.
Before(a, b) ==
    \/ Len(a) < Len(b)
    \/ /\ Len(a) = Len(b)
       /\ \E k \in 1..(Len(a) \div 2) :
             /\ MoveRank(a, k) < MoveRank(b, k)
             /\ \A n \in 1..(k - 1) : MoveRank(a, n) = MoveRank(b, n)

\* The accepted moves of g that start a solution of the least length.
GoodMoves(g) ==
    { m \in (0..(g.num_pieces - 1)) \X (1..4) :
        \E r \in {applyAction(g, pieceNames[m[1] + 1], MoveOrder[m[2]])} :
            /\ r.moved = 1
            /\ ShortestSolution([r.new_state EXCEPT !.soln = << >>])
                  = ShortestSolution(g) - 1 }

\* The first, move by move, of the solutions of least length from g
\* (g has a solution).
RECURSIVE FirstShortest(_)
FirstShortest(g) ==
    IF Winning(g) THEN << >>
    ELSE LET m == CHOOSE m \in GoodMoves(g) :
                    \A o \in GoodMoves(g) : 4 * m[1] + m[2] <= 4 * o[1] + o[2]
             child == applyAction(g, pieceNames[m[1] + 1], MoveOrder[m[2]]).new_state
         IN  <<pieceNames[m[1] + 1], MoveOrder[m[2]]>>
                 \o FirstShortest([child EXCEPT !.soln = << >>])

\* The queue is in move order, behind the state being expanded: each state
\* comes before the next one (Before is transitive).
C19_Sorted ==
    /\ \A i \in 1..(Len(queue) - 1) : Before(queue[i].soln, queue[i + 1].soln)
    /\ (pc = "expand" /\ Len(queue) > 0) => Before(current_state.soln, queue[1].soln)

\* A state joins the queue at its tail, and it is the child of the state
\* being expanded by the move the loop counters name.
C19_Step ==
    (pc = "expand" /\ queue' # queue) =>
        /\ Len(queue') = Len(queue) + 1
        /\ \A i \in 1..Len(queue) : queue'[i] = queue[i]
        /\ queue'[Len(queue')].soln =
              current_state.soln \o <<pieceNames[piece + 1], MoveOrder[direction + 1]>>

\* algo1 and algo2 return the first solution of least length.
C19_First ==
    (alg \in {1, 2} /\ pc = "ended" /\ has_won) => soln = FirstShortest(init_data)

\* C19: in all three algorithms the children of a state are enqueued in the
\* order piece 0..N-1 by u, d, l, r and behind the children of the states
\* dequeued earlier, so the queue is always in move order; algo1 and algo2
\* return the solution that is first in that order, compared move by move,
\* among the solutions of least length.
C19_MoveOrder == []C19_Sorted /\ [][C19_Step]_vars /\ []C19_First

\* C19 on the maps of two rows or more.
C19_TwoRows == []C19_Sorted /\ [][C19_Step]_vars /\ [](TwoRows => C19_First)

\* algo2 has won with a solution of two moves or more where two different
\* first moves start a solution of least length.
C19_Witness ==
    /\ alg = 2 /\ pc = "ended" /\ has_won
    /\ Len(soln) >= 4
    /\ Cardinality(GoodMoves(init_data)) >= 2
    /\ soln = FirstShortest(init_data)

\* The handles in the linked queue, from the head on.
RECURSIVE Contents(_, _)
Contents(q, n) == IF n = 0 THEN << >> ELSE <<q.node[n].data>> \o Contents(q, q.node[n].next)

\* The queue is empty exactly when as many handles were dequeued as enqueued,
\* and it holds the handles not yet dequeued in the order they came in.
C21_Empty ==
    /\ linked_is_empty_queue(queue) <=> (dequeued = enqueued)
    /\ Contents(queue, queue.head) = SubSeq(enq_log, dequeued + 1, enqueued)

\* The k-th dequeue returns the handle of the k-th enqueue.
C21_Step ==
    (dequeued' = dequeued + 1) => current_state' = enq_log[dequeued + 1]

\* C21: the queue is first-in first-out: under any interleaving of enqueue
\* and dequeue (on a non-empty queue) the k-th dequeue returns the handle of
\* the k-th enqueue, and is_empty_queue is true exactly when the dequeues
\* equal the enqueues in number, also after the queue was emptied and
\* filled again.
C21_Fifo == []C21_Empty /\ [][C21_Step]_vars

\* Two handles or more were dequeued, the last one differs from the one
\* dequeued before it and from the one that waits at the head.
C21_Witness ==
    /\ pc = "queue"
    /\ dequeued >= 2 /\ enqueued > dequeued
    /\ current_state = enq_log[dequeued]
    /\ enq_log[dequeued] # enq_log[dequeued - 1]
    /\ enq_log[dequeued] # enq_log[dequeued + 1]
    /\ ~linked_is_empty_queue(queue)

\* C22: getPackedSize returns the bytes the key needs, atom * num_pieces
\* bits rounded up to whole bytes, and that is the size of the packedMap
\* buffer an algorithm allocates.
C22_PackedBytes ==
    (alg \in {1, 2, 3} /\ pc = "loop") =>
        /\ getPackedSize(init_data) = (AtomBits(init_data) * num_pieces + 7) \div 8
        /\ Len(packedMap) = (AtomBits(init_data) * num_pieces + 7) \div 8

\* The len low bits of v, least significant first.
BitsOf(v, len) == [k \in 1..len |-> (v \div 2^(k - 1)) % 2]

\* The atom of piece i of g: its id, its y and its x.
AtomOf(g, i) ==
    BitsOf(i, calcBits(g.num_pieces)) \o BitsOf(g.piece_y[i], calcBits(g.lines))
        \o BitsOf(g.piece_x[i], calcBits(g.num_chars_map \div g.lines))

\* The atoms of the pieces in S, in the order of the piece indices.
RECURSIVE AtomsOf(_, _)
AtomsOf(g, S) ==
    IF S = {} THEN << >>
    ELSE LET i == CHOOSE m \in S : \A o \in S : m <= o
         IN  AtomOf(g, i) \o AtomsOf(g, S \ {i})

\* Between two widths nothing is left: the queue is empty, every state is
\* freed and there are no trees.
C23_Drained ==
    (alg = 3 /\ pc = "width") =>
        /\ queue = << >>
        /\ heap.live = {}
        /\ radixTrees = << >>
        /\ enqueued >= w - 1 /\ dequeued >= w - 1

\* The BFS loop of a width starts with one fresh copy of the initial state
\* in the queue and, in T[s], the s-combinations of its atoms; the counters
\* go on from their values, and the step to the next width leaves them.
C23_Step ==
    /\ (alg = 3 /\ pc = "width" /\ pc' = "loop") =>
          /\ queue' = <<[init_data EXCEPT !.soln = << >>]>>
          /\ Cardinality(heap'.live) = 1
          /\ Len(radixTrees') = w
          /\ \A s \in 1..w :
                radixTrees'[s].keys =
                    { AtomsOf(init_data, S) :
                        S \in {T \in SUBSET (0..(num_pieces - 1)) : Cardinality(T) = s} }
          /\ enqueued' = enqueued + 1
          /\ dequeued' = dequeued
          /\ duplicatedNodes' = duplicatedNodes
    /\ (alg = 3 /\ pc # "width" /\ pc' = "width" /\ pc # "init") =>
          /\ w' = w + 1
          /\ <<enqueued', dequeued', duplicatedNodes'>>
                = <<enqueued, dequeued, duplicatedNodes>>

\* C23: every width of algo3 starts from scratch: the loop for width w
\* starts with exactly one fresh copy of the initial state in the queue and
\* with T[s], s in 1..w, holding exactly the s-combinations of the initial
\* state's atoms; the width before was drained and freed and leaves no
\* queued state and no tree contents, while the counters of expanded,
\* generated and duplicated states keep growing across the widths.
C23_FromScratch == []C23_Drained /\ [][C23_Step]_vars

\* The loop of width 2 is about to start its first turn after width 1
\* enqueued and pruned states.
C23_Witness ==
    /\ alg = 3 /\ pc = "loop" /\ w = 2
    /\ Len(queue) = 1 /\ queue[1].soln = << >>
    /\ enqueued >= 3 /\ dequeued >= 2 /\ duplicatedNodes >= 1
    /\ Cardinality(radixTrees[2].keys) = 1
    /\ Cardinality(radixTrees[1].keys) = 2

\* algo3 has ended on a map with a piece and a reachable winning state: it
\* has won, at a width between 1 and the number of pieces.
C24_Found ==
    (alg = 3 /\ pc = "done" /\ shortest >= 0 /\ num_pieces >= 1) =>
        /\ report[3].has_won
        /\ report[3].w \in 1..num_pieces
        /\ report[3].w = w

\* The width starts at 1 and goes up by one only when the search of the
\* width has emptied its queue without a win; the win leaves it as it is.
C24_Step ==
    /\ (alg = 3 /\ alg' = 3 /\ w' # w) =>
          \/ pc = "init" /\ w' = 1
          \/ w' = w + 1 /\ ~has_won /\ queue = << >> /\ pc \in {"ended", "drain"}
    /\ (alg = 3 /\ ~has_won /\ has_won') => (w' = w /\ w \in 1..num_pieces)

\* C24: with one piece or more, on every map where a winning state can be
\* reached algo3 ends having found a solution and reports a width between 1
\* and the number of pieces, the least width whose search reaches a winning
\* state: every width below it was searched to the end without a win.
C24_Complete ==
    /\ (alg = 3 /\ pc = "init" /\ shortest >= 0 /\ num_pieces >= 1)
          ~> (alg = 3 /\ pc = "done" /\ report[3].has_won)
    /\ []C24_Found
    /\ [][C24_Step]_vars

\* C24 on the maps of two rows or more.
C24_TwoRows ==
    /\ (alg = 3 /\ pc = "init" /\ shortest >= 0 /\ num_pieces >= 1 /\ TwoRows)
          ~> (alg = 3 /\ pc = "done" /\ report[3].has_won)
    /\ [](TwoRows => C24_Found)
    /\ [][C24_Step]_vars

\* algo3 found no solution at width 1 and has ended with one found at
\* width 2.
C24_Witness ==
    /\ alg = 3 /\ pc = "done" /\ shortest >= 0
    /\ report[3].has_won /\ report[3].w = 2 /\ Len(report[3].soln) >= 4

\* algo3 is in the search of its last width, w = num_pieces.
LastWidth ==
    /\ alg = 3 /\ num_pieces >= 1 /\ w = num_pieces
    /\ pc \in {"loop", "expand", "ended", "drain"}

\* algo2 is in its search.
InAlgo2 == alg = 2 /\ pc \in {"loop", "expand", "ended", "drain"}

\* The children of cur by the moves m, m + 1, ... in move order, behind q:
\* a child joins q and log when its move is accepted and its tuple of piece
\* positions is not in log.
RECURSIVE ExactChildren(_, _, _, _)
ExactChildren(cur, m, q, log) ==
    IF m >= 4 * cur.num_pieces THEN [q |-> q, log |-> log]
    ELSE LET r == applyAction(cur, pieceNames[(m \div 4) + 1], MoveOrder[(m % 4) + 1])
             key == PositionKey(r.new_state)
         IN  IF r.moved = 1 /\ \A i \in 1..Len(log) : log[i] # key
             THEN ExactChildren(cur, m + 1, Append(q, r.new_state), Append(log, key))
             ELSE ExactChildren(cur, m + 1, q, log)

\* The breadth-first search from the queue q that prunes exactly the tuples
\* of piece positions in log and stops at the first winning state it
\* dequeues.
RECURSIVE ExactSearch(_, _)
ExactSearch(q, log) ==
    IF q = << >> THEN [has_won |-> FALSE, soln |-> << >>, log |-> log]
    ELSE IF Winning(Head(q))
    THEN [has_won |-> TRUE, soln |-> Head(q).soln, log |-> log]
    ELSE LET c == ExactChildren(Head(q), 0, Tail(q), log)
         IN  ExactSearch(c.q, c.log)

\* That search from the state gate.
ExactRun(gate) == ExactSearch(<<gate>>, <<PositionKey(gate)>>)

\* At each test of the loop the keys enqueued so far by algo2, and by algo3
\* in its last width, are those of the exact search, in the same order;
\* each ends with the keys, the outcome and the solution string of the
\* exact search.
C25_SameOrder ==
    ((InAlgo2 \/ LastWidth) /\ pc \in {"loop", "ended"}) =>
        \A ref \in {ExactRun(init_data)} :
            /\ Len(enq_log) <= Len(ref.log)
            /\ enq_log = SubSeq(ref.log, 1, Len(enq_log))
            /\ pc = "ended" =>
                  /\ enq_log = ref.log
                  /\ has_won = ref.has_won
                  /\ soln = ref.soln

\* In the last width an accepted child is pruned exactly when its tuple of
\* piece positions was produced before in this width, and is enqueued
\* otherwise.
C25_Step ==
    (LastWidth /\ ChildTurn /\ Accepted) =>
        \A key \in {PositionKey(Child)} :
            IF \E i \in 1..Len(enq_log) : enq_log[i] = key
            THEN queue' = queue /\ duplicatedNodes' = duplicatedNodes + 1
            ELSE queue' = Append(queue, Child) /\ duplicatedNodes' = duplicatedNodes

\* C25: the search of width w = num_pieces of algo3 behaves like algo2: a
\* child is pruned in it if and only if its whole tuple of piece positions
\* was produced earlier in that search, both enqueue the same states in the
\* same order, and when algo3 gets to that width it reports the solution
\* string algo2 reports.
C25_LastWidthIsAlgo2 == []C25_SameOrder /\ [][C25_Step]_vars

\* C25 on the maps of two rows or more.
C25_TwoRows == [](TwoRows => C25_SameOrder) /\ [][C25_Step]_vars

\* algo3 has won at width 2 on a map with two pieces, after pruning a child,
\* with the solution of two moves or more of the exact search.
C25_Witness ==
    /\ alg = 3 /\ pc = "done" /\ num_pieces = 2
    /\ report[3].has_won /\ report[3].w = 2
    /\ Len(report[3].soln) >= 4 /\ report[3].soln = ExactRun(init_data).soln
    /\ report[3].duplicated >= 1 /\ Len(report[3].log) >= 3

====
